---- MODULE Spec2Model ----
(***************************************************************************)
(* Model of the embroidery estimator's design-analysis engine              *)
(* (src/utils/design_analyzer.py): the loader DesignAnalyzer.analyze_file   *)
(* with its temporary file, the geometry metrics, the colour segmenter and *)
(* the density grid.                                                       *)
(*                                                                         *)
(* Units.  Coordinates are DST units (0.1 mm), integers.  width_mm and     *)
(* height_mm are kept as exact rationals [num, den] (x * 0.1 = x / 10),    *)
(* thread_length_yards likewise (len * 0.1 / 914.4 = len / 9144).          *)
(***************************************************************************)
EXTENDS Integers, Sequences, FiniteSets

VARIABLES
    pc,            \* position of the analysis call: idle, staged, read, removed, returned, raised
    file_data,     \* the uploaded bytes, by what the decoder makes of them
    tmp_path,      \* analyze_file's local tmp_path (0: none yet)
    files,         \* names of the temporary files that exist on disk
    calls,         \* number of analyze_file calls started so far
    pattern,       \* DesignAnalyzer.pattern
    err,           \* the exception analyze_file raised, if any
    metrics,       \* the dict analyze_file returned, if any
    stitches_in,   \* argument of the pure function under study
    num_colors,    \* argument of _segment_by_color
    grid_size,     \* argument of _calculate_density_map
    segments,      \* result of _segment_by_color
    density_map,   \* result of _calculate_density_map
    called,        \* whether the pure function under study has been applied
    round_ties_up, \* floating point: whether a score exactly half-way between two hundredths rounds up
    st_error,      \* the message main shows with st.error, if any
    fig,           \* what the figure generate_preview returned draws, if any
    runtime_data,  \* the dict calculate_runtime returned to main, if any
    thread_costs,  \* the dict calculate_thread_cost returned to main, if any
    previews,      \* number of generate_preview calls on the loaded pattern
    metrics_again, \* result of a second _calculate_metrics on the loaded pattern, if any
    complexity,    \* result of _calculate_complexity_score
    score_in,      \* argument of get_complexity_description
    description,   \* result of get_complexity_description
    call_pc,       \* position of each of two overlapping analyze_file calls on one instance
    call_data,     \* the bytes each of the two calls was given
    call_tmp,      \* each call's local tmp_path
    call_metrics,  \* the dict each call returned, if any
    inputs,        \* arguments of the CostCalculator method under study
    widgets,       \* values of main's widgets in the script run
    foam_costs,    \* the dict calculate_foam_cost returned, if any
    step,          \* the last statement of the upload flow main has run
    passed,        \* the active_heads argument each callee of main was given
    db,            \* the database: rows of the open transaction and committed rows
    save_pc,       \* position of save_job_to_db
    job_id,        \* job.id of the current save_job_to_db call
    saves          \* number of save_job_to_db calls so far

vars == <<pc, file_data, tmp_path, files, calls, pattern, err, metrics, stitches_in, num_colors, grid_size, segments, density_map, called, round_ties_up, st_error, fig, runtime_data, thread_costs, previews, metrics_again, complexity, score_in, description, call_pc, call_data, call_tmp, call_metrics, inputs, widgets, foam_costs, step, passed, db, save_pc, job_id, saves>>

loaderVars == <<pc, file_data, tmp_path, files, calls, pattern, err, metrics>>

pureVars == <<stitches_in, num_colors, grid_size, segments, density_map, called>>

flowVars == <<st_error, fig, runtime_data, thread_costs>>

previewVars == <<previews, metrics_again>>

scoreVars == <<complexity, score_in, description>>

callVars == <<call_pc, call_data, call_tmp, call_metrics>>

jobVars == <<inputs, widgets, foam_costs, step, passed, db, save_pc, job_id, saves>>

(***************************************************************************)
(* Bounds of the model.                                                    *)
(***************************************************************************)
\* longest decoded trace of the loader specification
MaxLen == 3

\* number of analyze_file calls in one behaviour
MaxCalls == 2

\* x and y values of the loader's traces: every distance between two points
\* of XS \X YS is an integer (3-4-5), so Sqrt is exact
XS == {0, 3}

YS == {0, 4}

Commands == {"STITCH", "JUMP"}

\* messages of the exceptions the decoder may raise
DecoderMessages == {"truncated header", "bad stitch record"}

(***************************************************************************)
(* Values.                                                                 *)
(***************************************************************************)
\* Python's None, for pattern, err and metrics
None == [kind |-> "None"]

\* a stitch record [x, y, command] as pyembroidery keeps it
Records == XS \X YS \X Commands

SeqsUpTo(S, n) == UNION {[1..k -> S] : k \in 0..n}

Traces == SeqsUpTo(Records, MaxLen)

\* what pyembroidery.read does with the staged file: raise, return None,
\* return an object without stitches, or return a pattern
FileData ==
    [kind : {"raises"}, msg : DecoderMessages]
        \cup {[kind |-> "null"], [kind |-> "no_stitches"]}
        \cup [kind : {"design"}, stitches : Traces]

\* an upload of zero bytes
EmptyFile == [kind |-> "empty"]

\* what file_uploader hands to main
Uploads == FileData \cup {EmptyFile}

\* a variant of EmptyContents that takes no contents for empty
EmptyContentsNever(f) == FALSE

\* "if not file_contents": the uploaded bytes are empty
EmptyContents(f) == f = EmptyFile

Rat(n, d) == [num |-> n, den |-> d]

RECURSIVE Gcd(_, _)
Gcd(a, b) == IF b = 0 THEN a ELSE Gcd(b, a % b)

\* the rational n / d (n >= 0, d > 0) in lowest terms
Frac(n, d) == Rat(n \div Gcd(n, d), d \div Gcd(n, d))

Min2(a, b) == IF a < b THEN a ELSE b

RECURSIVE MinOf(_)
MinOf(s) ==
    IF Len(s) = 1 THEN s[1]
    ELSE LET m == MinOf(Tail(s)) IN IF s[1] < m THEN s[1] ELSE m

RECURSIVE MaxOf(_)
MaxOf(s) ==
    IF Len(s) = 1 THEN s[1]
    ELSE LET m == MaxOf(Tail(s)) IN IF s[1] > m THEN s[1] ELSE m

\* column c of the stitch array: stitches[:, c]
Column(stitches, c) == [i \in 1..Len(stitches) |-> stitches[i][c]]

\* np.sqrt on the squares the traces produce
Sqrt(n) == CHOOSE r \in 0..n : r * r = n

(***************************************************************************)
(* Geometry metrics (pure functions of the trace).                         *)
(***************************************************************************)
\* Euclidean length of the step from record a to record b: np.sqrt(dx*dx + dy*dy)
StepLength(a, b) == Sqrt((b[1] - a[1]) * (b[1] - a[1]) + (b[2] - a[2]) * (b[2] - a[2]))

\* the loop "for i in range(1, len(stitches))": every consecutive pair is
\* added, whatever the command of either record
RECURSIVE ThreadLength(_)
ThreadLength(stitches) ==
    IF Len(stitches) < 2 THEN 0
    ELSE ThreadLength(SubSeq(stitches, 1, Len(stitches) - 1))
             + StepLength(stitches[Len(stitches) - 1], stitches[Len(stitches)])

\* a variant of WidthSpan that measures the STITCH records alone
WidthSpanStitchOnly(stitches) ==
    LET s == SelectSeq(stitches, LAMBDA r : r[3] = "STITCH")
    IN  IF s = <<>> THEN 0 ELSE MaxOf(Column(s, 1)) - MinOf(Column(s, 1))

\* max_x - min_x over the whole array
WidthSpan(stitches) == MaxOf(Column(stitches, 1)) - MinOf(Column(stitches, 1))

\* max_y - min_y over the whole array
HeightSpan(stitches) == MaxOf(Column(stitches, 2)) - MinOf(Column(stitches, 2))

(***************************************************************************)
(* Complexity score.  Scores are exact rationals until round(., 2), which  *)
(* takes the nearest hundredth; a score exactly half-way between two       *)
(* hundredths goes where the binary floating-point value falls, either    *)
(* way (round_ties_up).  The returned scores are integers counting         *)
(* hundredths.                                                             *)
(***************************************************************************)
RECURSIVE SumSeq(_)
SumSeq(s) == IF s = <<>> THEN 0 ELSE s[1] + SumSeq(Tail(s))

Abs(n) == IF n < 0 THEN -n ELSE n

\* np.diff(stitches[:, :2], axis=0): the step vectors between consecutive records
Vectors(stitches) ==
    [i \in 1..(Len(stitches) - 1) |->
        <<stitches[i + 1][1] - stitches[i][1], stitches[i + 1][2] - stitches[i][2]>>]

Cross(u, w) == u[1] * w[2] - u[2] * w[1]

Dot(u, w) == u[1] * w[1] + u[2] * w[2]

\* the direction np.arctan2 gives a vector: arctan2(0, 0) = 0, the heading of (1, 0)
Heading(v) == IF v = <<0, 0>> THEN <<1, 0>> ELSE v

\* arctan2 of the heading lies in (0, pi]
Upper(h) == h[2] > 0 \/ (h[2] = 0 /\ h[1] < 0)

\* arctan2 of the heading lies in (-pi, 0)
Lower(h) == h[2] < 0

\* the two arctan2 values differ by more than pi: they lie on the two sides of
\* the cut at +/-pi and the difference is taken the long way round
AcrossCut(u, w) ==
    \/ Lower(u) /\ Upper(w) /\ Cross(u, w) < 0
    \/ Lower(w) /\ Upper(u) /\ Cross(w, u) < 0

\* the turn from u to w, taken the short way, exceeds pi/4
TurnExceeds(u, w) == ~(Dot(u, w) > 0 /\ Abs(Cross(u, w)) <= Dot(u, w))

\* np.abs(np.diff(angles)) > np.pi/4 for two consecutive step vectors: the raw
\* difference of the two arctan2 values, not reduced to [0, pi]
AngleChangeExceeds(u, w) == AcrossCut(Heading(u), Heading(w)) \/ TurnExceeds(Heading(u), Heading(w))

\* np.sum(angle_changes > np.pi/4)
DirectionChanges(stitches) ==
    LET v == Vectors(stitches)
    IN  Cardinality({i \in 1..(Len(v) - 1) : AngleChangeExceeds(v[i], v[i + 1])})

\* a variant of DensityScore without the cap at 10
DensityScoreUncapped(stitches) ==
    LET a == WidthSpan(stitches) * HeightSpan(stitches)
    IN  IF a > 0 THEN Rat(20 * Len(stitches), a) ELSE Rat(0, 1)

\* a variant of DensityScore that divides by a zero area: the quotient of
\* floats is inf, and min(inf / 5, 10) = 10
DensityScoreDividing(stitches) ==
    LET a == WidthSpan(stitches) * HeightSpan(stitches)
    IN  IF a = 0 \/ 20 * Len(stitches) >= 10 * a THEN Rat(10, 1) ELSE Rat(20 * Len(stitches), a)

\* min(density / 5, 10) with density = len / area_mm2 when area_mm2 > 0, else 0;
\* area_mm2 = span_x * span_y * 0.01
DensityScore(stitches) ==
    LET a == WidthSpan(stitches) * HeightSpan(stitches)
    IN  IF a > 0
        THEN (IF 20 * Len(stitches) >= 10 * a THEN Rat(10, 1) ELSE Rat(20 * Len(stitches), a))
        ELSE Rat(0, 1)

\* a variant of LengthVarianceScore over the steps between two STITCH records
LengthVarianceScoreStitchOnly(stitches) ==
    LET idx == {i \in 1..(Len(stitches) - 1) :
                   stitches[i][3] = "STITCH" /\ stitches[i + 1][3] = "STITCH"}
        m == Cardinality(idx)
        len(i) == StepLength(stitches[i], stitches[i + 1])
        sq == SumSeq([i \in 1..(Len(stitches) - 1) |-> IF i \in idx THEN len(i) * len(i) ELSE 0])
        su == SumSeq([i \in 1..(Len(stitches) - 1) |-> IF i \in idx THEN len(i) ELSE 0])
        var == m * sq - su * su
    IN  IF m = 0 THEN Rat(0, 1)
        ELSE IF var >= 10 * 100 * m * m THEN Rat(10, 1) ELSE Rat(var, 100 * m * m)

\* min(np.var(stitch_lengths) / 100, 10): population variance of the step lengths
LengthVarianceScore(stitches) ==
    LET v == Vectors(stitches)
        l == [i \in 1..Len(v) |-> Sqrt(Dot(v[i], v[i]))]
        m == Len(l)
        var == m * SumSeq([i \in 1..m |-> l[i] * l[i]]) - SumSeq(l) * SumSeq(l)
    IN  IF var >= 10 * 100 * m * m THEN Rat(10, 1) ELSE Rat(var, 100 * m * m)

\* round(q, 2) of a rational q >= 0, in hundredths; up decides an exact tie
Round2(q, up) ==
    LET n == 100 * q.num
        d == q.den
        f == n \div d
        r == n % d
    IN  IF 2 * r > d \/ (2 * r = d /\ up) THEN f + 1 ELSE f

\* a variant of ComplexityScore without the cap at 100
ComplexityScoreUncapped(stitches) ==
    LET n == Len(stitches)
        dc == DirectionChanges(stitches)
        ds == DensityScore(stitches)
        lv == LengthVarianceScore(stitches)
    IN  Rat(40 * dc * ds.den * lv.den + 30 * ds.num * n * lv.den + 30 * lv.num * n * ds.den,
            n * ds.den * lv.den)

\* min(direction_changes / len * 40 + density_score * 30 + length_variance_score * 30, 100)
ComplexityScore(stitches) ==
    LET n == Len(stitches)
        dc == DirectionChanges(stitches)
        ds == DensityScore(stitches)
        lv == LengthVarianceScore(stitches)
        num == 40 * dc * ds.den * lv.den + 30 * ds.num * n * lv.den + 30 * lv.num * n * ds.den
        den == n * ds.den * lv.den
    IN  IF num >= 100 * den THEN Rat(100, 1) ELSE Rat(num, den)

\* _calculate_complexity_score
CalculateComplexityScore(stitches, up) ==
    IF Len(stitches) < 2
    THEN [complexity_score |-> 0, direction_changes |-> 0, density_score |-> 0,
          stitch_length_variance |-> 0]
    ELSE [complexity_score |-> Round2(ComplexityScore(stitches), up),
          direction_changes |-> DirectionChanges(stitches),
          density_score |-> Round2(DensityScore(stitches), up),
          stitch_length_variance |-> Round2(LengthVarianceScore(stitches), up)]

\* _calculate_metrics on a non-empty array
CalculateMetrics(stitches, up) ==
    LET c == CalculateComplexityScore(stitches, up)
    IN  [width_mm |-> Rat(WidthSpan(stitches), 10),
         height_mm |-> Rat(HeightSpan(stitches), 10),
         stitch_count |-> Len(stitches),
         thread_length_yards |-> Rat(ThreadLength(stitches), 9144),
         complexity_score |-> c.complexity_score,
         direction_changes |-> c.direction_changes,
         density_score |-> c.density_score,
         stitch_length_variance |-> c.stitch_length_variance]

(***************************************************************************)
(* The loader: DesignAnalyzer.analyze_file, one step per statement.        *)
(***************************************************************************)
Exception(kind, msg) == [kind |-> kind, msg |-> msg]

\* a variant of Handler that drops the cause's message
HandlerNoMessage(e) == Exception("Exception", <<"Error analyzing design: ">>)

\* "except Exception as e: raise Exception(f'Error analyzing design: {str(e)}')"
Handler(e) == Exception("Exception", <<"Error analyzing design: ", e.msg>>)

\* what pyembroidery.read returns for the staged bytes (when it returns)
Decoded(f) ==
    IF f.kind = "design"
    THEN [kind |-> "EmbPattern", has_stitches |-> TRUE, stitches |-> f.stitches]
    ELSE IF f.kind = "no_stitches"
         THEN [kind |-> "EmbPattern", has_stitches |-> FALSE]
         ELSE None

\* "if not self.pattern or not hasattr(self.pattern, 'stitches')"
InvalidPattern(p) == IF p = None THEN TRUE ELSE ~p.has_stitches

\* the with-block: the bytes are written to a fresh file that outlives the
\* block (delete=False); main calls analyze_file with contents that are not
\* empty
Stage ==
    /\ pc = "idle"
    /\ calls < MaxCalls
    /\ \E f \in Uploads : ~EmptyContents(f) /\ file_data' = f
    /\ calls' = calls + 1
    /\ tmp_path' = calls + 1
    /\ files' = files \cup {calls + 1}
    /\ pc' = "staged"
    /\ UNCHANGED <<pattern, err, metrics>>
    /\ UNCHANGED <<pureVars, round_ties_up, jobVars, flowVars, previewVars, scoreVars, callVars>>

\* "self.pattern = pyembroidery.read(tmp_path)": the decoder returns
ReadReturns ==
    /\ pc = "staged"
    /\ file_data.kind # "raises"
    /\ pattern' = Decoded(file_data)
    /\ pc' = "read"
    /\ UNCHANGED <<file_data, tmp_path, files, calls, err, metrics>>
    /\ UNCHANGED <<pureVars, round_ties_up, jobVars, flowVars, previewVars, scoreVars, callVars>>

\* the decoder raises: control goes to the handler, past os.remove
ReadRaises ==
    /\ pc = "staged"
    /\ file_data.kind = "raises"
    /\ err' = Handler(Exception("DecoderException", file_data.msg))
    /\ pc' = "raised"
    /\ UNCHANGED <<file_data, tmp_path, files, calls, pattern, metrics>>
    /\ UNCHANGED <<pureVars, round_ties_up, jobVars, flowVars, previewVars, scoreVars, callVars>>

\* "os.remove(tmp_path)"
Remove ==
    /\ pc = "read"
    /\ files' = files \ {tmp_path}
    /\ pc' = "removed"
    /\ UNCHANGED <<file_data, tmp_path, calls, pattern, err, metrics>>
    /\ UNCHANGED <<pureVars, round_ties_up, jobVars, flowVars, previewVars, scoreVars, callVars>>

\* a pattern object that holds no stitch record; whether "not self.pattern" is
\* true of it depends on the decoder library's EmbPattern (its __len__), so
\* both outcomes of the check are taken
EmptyPattern(p) == IF InvalidPattern(p) THEN FALSE ELSE p.stitches = <<>>

\* the check of the pattern fails: ValueError, caught by the handler of the
\* same try
Reject ==
    /\ pc = "removed"
    /\ InvalidPattern(pattern) \/ EmptyPattern(pattern)
    /\ err' = Handler(Exception("ValueError", "Invalid design file"))
    /\ pc' = "raised"
    /\ UNCHANGED <<file_data, tmp_path, files, calls, pattern, metrics>>
    /\ UNCHANGED <<pureVars, round_ties_up, jobVars, flowVars, previewVars, scoreVars, callVars>>

\* "return self._calculate_metrics()" on an empty list: np.array([]) has one
\* axis, stitches[:, 0] raises IndexError, caught by the handler
MetricsRaise ==
    /\ pc = "removed"
    /\ ~InvalidPattern(pattern)
    /\ pattern.stitches = <<>>
    /\ err' = Handler(Exception("IndexError", "too many indices for array"))
    /\ pc' = "raised"
    /\ UNCHANGED <<file_data, tmp_path, files, calls, pattern, metrics>>
    /\ UNCHANGED <<pureVars, round_ties_up, jobVars, flowVars, previewVars, scoreVars, callVars>>

\* "return self._calculate_metrics()"
MetricsReturn ==
    /\ pc = "removed"
    /\ ~InvalidPattern(pattern)
    /\ pattern.stitches # <<>>
    /\ metrics' = CalculateMetrics(pattern.stitches, round_ties_up)
    /\ pc' = "returned"
    /\ UNCHANGED <<file_data, tmp_path, files, calls, pattern, err>>
    /\ UNCHANGED <<pureVars, round_ties_up, jobVars, flowVars, previewVars, scoreVars, callVars>>

\* the script runs again for the next upload, with a fresh DesignAnalyzer()
Rerun ==
    /\ pc \in {"returned", "raised", "rejected"}
    /\ calls < MaxCalls
    /\ pc' = "idle"
    /\ pattern' = None
    /\ err' = None
    /\ metrics' = None
    /\ tmp_path' = 0
    /\ file_data' = None
    /\ st_error' = None
    /\ fig' = None
    /\ runtime_data' = None
    /\ thread_costs' = None
    /\ UNCHANGED <<files, calls>>
    /\ UNCHANGED <<pureVars, round_ties_up, jobVars, previewVars, scoreVars, callVars>>

\* the two overlapping analyze_file calls
CallIds == {1, 2}

FlowIdle ==
    /\ st_error = None
    /\ fig = None
    /\ runtime_data = None
    /\ thread_costs = None

PreviewIdle ==
    /\ previews = 0
    /\ metrics_again = None

ScoreIdle ==
    /\ complexity = None
    /\ score_in = 0
    /\ description = None

CallsIdle ==
    /\ call_pc = [c \in CallIds |-> "idle"]
    /\ call_data = [c \in CallIds |-> None]
    /\ call_tmp = [c \in CallIds |-> 0]
    /\ call_metrics = [c \in CallIds |-> None]

\* an empty database with no transaction open
EmptyDb == [pending |-> {}, committed |-> {}]

MainIdle ==
    /\ widgets = None
    /\ foam_costs = None
    /\ step = "none"
    /\ passed = {}
    /\ db = EmptyDb
    /\ save_pc = "idle"
    /\ job_id = 0
    /\ saves = 0

JobIdle ==
    /\ inputs = None
    /\ MainIdle

PureIdle ==
    /\ stitches_in = <<>>
    /\ num_colors = 1
    /\ grid_size = 1
    /\ segments = <<>>
    /\ density_map = <<>>
    /\ called = FALSE

Init ==
    /\ pc = "idle"
    /\ file_data = None
    /\ tmp_path = 0
    /\ files = {}
    /\ calls = 0
    /\ pattern = None
    /\ err = None
    /\ metrics = None
    /\ round_ties_up \in BOOLEAN
    /\ PureIdle
    /\ FlowIdle
    /\ PreviewIdle
    /\ ScoreIdle
    /\ CallsIdle
    /\ JobIdle

(***************************************************************************)
(* Colour segmenter: DesignAnalyzer._segment_by_color.                     *)
(***************************************************************************)
\* longest trace handed to the segmenter
MaxSegLen == 10

\* largest num_colors handed to the segmenter (the smallest is -1)
MaxColors == 4

SegRecords == {<<0, 0, "STITCH">>, <<3, 4, "JUMP">>}

\* Python's s[a:b] for 0 <= a, 0 <= b: the ends are clamped to len(s)
Slice(s, a, b) == SubSeq(s, Min2(a, Len(s)) + 1, Min2(b, Len(s)))

\* a variant of SegmentByColor whose last segment stops after stitches_per_color
\* records like the others
SegmentByColorNoRemainder(stitches, n) ==
    IF n <= 0 THEN <<stitches>>
    ELSE LET spc == Len(stitches) \div n
         IN  [i \in 1..n |-> Slice(stitches, (i - 1) * spc, (i - 1) * spc + spc)]

\* a variant of SegmentByColor that spreads the remainder over the first segments
SegmentByColorBalanced(stitches, n) ==
    IF n <= 0 THEN <<stitches>>
    ELSE LET spc == Len(stitches) \div n
             rem == Len(stitches) % n
         IN  [i \in 1..n |->
                 Slice(stitches, (i - 1) * spc + Min2(i - 1, rem), i * spc + Min2(i, rem))]

\* a variant of SegmentByColor that returns no segment when num_colors <= 0
SegmentByColorEmptyGuard(stitches, n) ==
    IF n <= 0 THEN <<>>
    ELSE LET spc == Len(stitches) \div n
         IN  [i \in 1..n |->
                 Slice(stitches, (i - 1) * spc,
                       IF i - 1 < n - 1 THEN (i - 1) * spc + spc ELSE Len(stitches))]

\* _segment_by_color; segment i of the model is the code's segment i - 1
SegmentByColor(stitches, n) ==
    IF n <= 0 THEN <<stitches>>
    ELSE LET spc == Len(stitches) \div n
         IN  [i \in 1..n |->
                 Slice(stitches, (i - 1) * spc,
                       IF i - 1 < n - 1 THEN (i - 1) * spc + spc ELSE Len(stitches))]

ApplySegmentByColor ==
    /\ ~called
    /\ segments' = SegmentByColor(stitches_in, num_colors)
    /\ called' = TRUE
    /\ UNCHANGED <<stitches_in, num_colors, grid_size, density_map>>
    /\ UNCHANGED <<loaderVars, round_ties_up, jobVars, flowVars, previewVars, scoreVars, callVars>>

AnalyzerIdle ==
    /\ pc = "idle"
    /\ file_data = None
    /\ tmp_path = 0
    /\ files = {}
    /\ calls = 0
    /\ pattern = None
    /\ err = None
    /\ metrics = None

LoaderIdle ==
    /\ AnalyzerIdle
    /\ FlowIdle
    /\ PreviewIdle
    /\ CallsIdle

SegInit ==
    /\ LoaderIdle
    /\ JobIdle
    /\ round_ties_up = FALSE
    /\ ScoreIdle
    /\ stitches_in \in SeqsUpTo(SegRecords, MaxSegLen)
    /\ num_colors \in (-1)..MaxColors
    /\ grid_size = 1
    /\ segments = <<>>
    /\ density_map = <<>>
    /\ called = FALSE

SegNext == ApplySegmentByColor

SegSpec == SegInit /\ [][SegNext]_vars

(***************************************************************************)
(* Density grid: DesignAnalyzer._calculate_density_map.                    *)
(***************************************************************************)
\* longest trace handed to the density grid
MaxDensityLen == 3

\* largest grid_size
MaxGrid == 3

DensityXS == {0, 1, 2, 3}

DensityYS == {-1, 0}

DensityRecords == DensityXS \X DensityYS \X {"STITCH"}

\* np.histogramdd's bin of value v on an axis of `bins` equal bins over
\* [lo, hi] (over [lo - 0.5, hi + 0.5] when lo = hi): the number of edges <= v
\* (searchsorted, side='right'), less one for a value on the last edge.  Bins
\* 1..bins are the grid; 0 and bins + 1 collect the values outside the range.
\* Edges are compared exactly, in halves: edge k = lo2 + k * (hi2 - lo2) / bins.
BinIndex(v, lo, hi, bins) ==
    LET lo2 == IF lo = hi THEN 2 * lo - 1 ELSE 2 * lo
        hi2 == IF lo = hi THEN 2 * hi + 1 ELSE 2 * hi
        below == Cardinality({k \in 0..bins : lo2 * bins + k * (hi2 - lo2) <= 2 * v * bins})
    IN  IF 2 * v = hi2 THEN below - 1 ELSE below

\* np.histogram2d(x, y, bins=bins, range=[[xlo, xhi], [ylo, yhi]])[0]
Histogram2d(xs, ys, bins, xlo, xhi, ylo, yhi) ==
    [i \in 1..bins |-> [j \in 1..bins |->
        Cardinality({k \in 1..Len(xs) : /\ BinIndex(xs[k], xlo, xhi, bins) = i
                                        /\ BinIndex(ys[k], ylo, yhi, bins) = j})]]

\* a variant of CalculateDensityMap that passes the x range for both axes
CalculateDensityMapXRange(stitches, bins) ==
    LET xs == Column(stitches, 1)
        ys == Column(stitches, 2)
    IN  Histogram2d(xs, ys, bins, MinOf(xs), MaxOf(xs), MinOf(xs), MaxOf(xs))

\* _calculate_density_map on a non-empty array
CalculateDensityMap(stitches, bins) ==
    LET xs == Column(stitches, 1)
        ys == Column(stitches, 2)
    IN  Histogram2d(xs, ys, bins, MinOf(xs), MaxOf(xs), MinOf(ys), MaxOf(ys))

ApplyDensityMap ==
    /\ ~called
    /\ density_map' = CalculateDensityMap(stitches_in, grid_size)
    /\ called' = TRUE
    /\ UNCHANGED <<stitches_in, num_colors, grid_size, segments>>
    /\ UNCHANGED <<loaderVars, round_ties_up, jobVars, flowVars, previewVars, scoreVars, callVars>>

\* the grid is computed from the array of a loaded design, which is not empty
DensityInit ==
    /\ LoaderIdle
    /\ JobIdle
    /\ round_ties_up = FALSE
    /\ ScoreIdle
    /\ stitches_in \in SeqsUpTo(DensityRecords, MaxDensityLen) \ {<<>>}
    /\ grid_size \in 1..MaxGrid
    /\ num_colors = 1
    /\ segments = <<>>
    /\ density_map = <<>>
    /\ called = FALSE

DensityNext == ApplyDensityMap

DensitySpec == DensityInit /\ [][DensityNext]_vars

(***************************************************************************)
(* The complexity score on its own:                                        *)
(* DesignAnalyzer._calculate_complexity_score.                             *)
(***************************************************************************)
\* longest array given to _calculate_complexity_score
MaxScoreLen == 3

\* points of the arrays: a 3-4-5 rectangle, a unit square (a dense design), a
\* far point (a large variance of the step lengths), and two points left of
\* the origin whose step vectors (-3, 0) and (-4, -3) have their arctan2 on
\* the two sides of the cut at +/-pi
ScorePoints ==
    {<<0, 0>>, <<3, 0>>, <<3, 4>>, <<0, 4>>, <<1, 0>>, <<1, 1>>, <<65, 0>>, <<-3, 0>>, <<-7, -3>>}

ScoreRecords == {<<p[1], p[2], c>> : p \in ScorePoints, c \in Commands}

\* the step from a to b has an integer length, so np.sqrt is exact on it
IntegerStep(a, b) ==
    LET dx == b[1] - a[1]
        dy == b[2] - a[2]
    IN  \E r \in 0..(Abs(dx) + Abs(dy)) : r * r = dx * dx + dy * dy

ScoreTraces ==
    {t \in SeqsUpTo(ScoreRecords, MaxScoreLen) :
        \A i \in 1..(Len(t) - 1) : IntegerStep(t[i], t[i + 1])}

ApplyComplexityScore ==
    /\ ~called
    /\ complexity' = CalculateComplexityScore(stitches_in, round_ties_up)
    /\ called' = TRUE
    /\ UNCHANGED <<stitches_in, num_colors, grid_size, segments, density_map>>
    /\ UNCHANGED <<score_in, description>>
    /\ UNCHANGED <<loaderVars, round_ties_up, jobVars, flowVars, previewVars, callVars>>

ScoreInit ==
    /\ LoaderIdle
    /\ JobIdle
    /\ round_ties_up \in BOOLEAN
    /\ stitches_in \in ScoreTraces
    /\ num_colors = 1
    /\ grid_size = 1
    /\ segments = <<>>
    /\ density_map = <<>>
    /\ called = FALSE
    /\ ScoreIdle

ScoreNext == ApplyComplexityScore

ScoreSpec == ScoreInit /\ [][ScoreNext]_vars

(***************************************************************************)
(* The wording of a score: DesignAnalyzer.get_complexity_description.      *)
(***************************************************************************)
\* the largest complexity score: min(..., 100)
MaxScore == 100

\* the scores given to get_complexity_description, in hundredths
Scores == 0..(100 * MaxScore)

\* a variant of GetComplexityDescription whose bands are closed above
GetComplexityDescriptionClosedAbove(score) ==
    IF score <= 20 * 100 THEN "Simple design with basic stitching patterns"
    ELSE IF score <= 40 * 100 THEN "Moderate complexity with some direction changes"
    ELSE IF score <= 60 * 100
         THEN "Complex design with frequent direction changes and varied density"
    ELSE IF score <= 80 * 100
         THEN "Very complex design with high stitch density and technical challenges"
    ELSE "Extremely complex design requiring careful production consideration"

\* get_complexity_description, for a score in hundredths
GetComplexityDescription(score) ==
    IF score < 20 * 100 THEN "Simple design with basic stitching patterns"
    ELSE IF score < 40 * 100 THEN "Moderate complexity with some direction changes"
    ELSE IF score < 60 * 100
         THEN "Complex design with frequent direction changes and varied density"
    ELSE IF score < 80 * 100
         THEN "Very complex design with high stitch density and technical challenges"
    ELSE "Extremely complex design requiring careful production consideration"

ApplyDescription ==
    /\ ~called
    /\ description' = GetComplexityDescription(score_in)
    /\ called' = TRUE
    /\ UNCHANGED <<stitches_in, num_colors, grid_size, segments, density_map>>
    /\ UNCHANGED <<complexity, score_in>>
    /\ UNCHANGED <<loaderVars, round_ties_up, jobVars, flowVars, previewVars, callVars>>

BandInit ==
    /\ LoaderIdle
    /\ JobIdle
    /\ round_ties_up = FALSE
    /\ PureIdle
    /\ complexity = None
    /\ score_in \in Scores
    /\ description = None

BandNext == ApplyDescription

BandSpec == BandInit /\ [][BandNext]_vars

(***************************************************************************)
(* The preview: DesignAnalyzer.generate_preview on a loaded design, and a  *)
(* second DesignAnalyzer._calculate_metrics on the same analyzer.          *)
(***************************************************************************)
\* longest trace of a design that is previewed
MaxPreviewLen == 3

\* records of the previewed designs
PreviewRecords == {<<0, 0, "STITCH">>, <<3, 0, "STITCH">>, <<3, 4, "JUMP">>}

\* the designs main previews: decoded, with at least one record
PreviewDesigns == [kind : {"design"}, stitches : SeqsUpTo(PreviewRecords, MaxPreviewLen) \ {<<>>}]

\* number of generate_preview calls on one loaded design
MaxPreviews == 2

\* grid_size of _calculate_density_map when generate_preview calls it
DefaultGridSize == 50

\* num_colors given to generate_preview
PreviewNumColors == {0, 1, 2}

\* thread_colors given to generate_preview: None (or an empty list) and a
\* list of one colour
PreviewThreadColors == {<<>>, <<"#1F77B4">>}

\* "stitches[:, :2] = -stitches[:, :2]": both coordinates of every row negated
Flip(stitches) ==
    [i \in 1..Len(stitches) |-> <<-stitches[i][1], -stitches[i][2], stitches[i][3]>>]

\* a variant of StitchesAfterFlip in which the array shares the storage of
\* the pattern's list
StitchesAfterFlipShared(stitches) == Flip(stitches)

\* pattern.stitches after "stitches = np.array(self.pattern.stitches)" and the
\* assignment to stitches[:, :2]: np.array copies the list, the assignment
\* writes the copy
StitchesAfterFlip(stitches) == stitches

\* "thread_colors if thread_colors else ['#000000'] * num_colors"
PreviewColors(num, thread_colors) ==
    IF thread_colors # <<>> THEN thread_colors
    ELSE [i \in 1..(IF num > 0 THEN num ELSE 0) |-> "#000000"]

\* the cells of the density map that hold a record, with their counts
HeatCells(stitches, bins) ==
    LET xs == Column(stitches, 1)
        ys == Column(stitches, 2)
        xlo == MinOf(xs)
        xhi == MaxOf(xs)
        ylo == MinOf(ys)
        yhi == MaxOf(ys)
        placed == {<<k, BinIndex(xs[k], xlo, xhi, bins), BinIndex(ys[k], ylo, yhi, bins)>> :
                      k \in 1..Len(stitches)}
        cells == {<<p[2], p[3]>> : p \in placed}
    IN  [c \in cells |-> Cardinality({p \in placed : <<p[2], p[3]>> = c})]

\* the rectangle of the foam overlay: 5 units around the extent of the array
FoamRect(stitches, foam_color) ==
    LET xs == Column(stitches, 1)
        ys == Column(stitches, 2)
    IN  [x |-> MinOf(xs) - 5, y |-> MinOf(ys) - 5,
         width |-> MaxOf(xs) - MinOf(xs) + 10, height |-> MaxOf(ys) - MinOf(ys) + 10,
         color |-> foam_color]

\* what the figure of generate_preview draws: one line per segment of the
\* flipped array in colors[i % len(colors)], the foam overlay, the heatmap
Figure(stitches, show_foam, foam_color, num, thread_colors) ==
    LET flipped == Flip(stitches)
        segs == SegmentByColor(flipped, num)
        colors == PreviewColors(num, thread_colors)
    IN  [lines |-> [i \in 1..Len(segs) |->
                       [points |-> segs[i], color |-> colors[((i - 1) % Len(colors)) + 1]]],
         foam |-> IF show_foam THEN FoamRect(flipped, foam_color) ELSE None,
         heatmap |-> HeatCells(flipped, DefaultGridSize)]

\* generate_preview returns the figure
GeneratePreview ==
    /\ pc = "returned"
    /\ previews < MaxPreviews
    /\ \E num \in PreviewNumColors, thread_colors \in PreviewThreadColors, show_foam \in BOOLEAN :
           /\ PreviewColors(num, thread_colors) # <<>>
           /\ fig' = Figure(pattern.stitches, show_foam, "#FF0000", num, thread_colors)
    /\ pattern' = [pattern EXCEPT !.stitches = StitchesAfterFlip(pattern.stitches)]
    /\ previews' = previews + 1
    /\ UNCHANGED <<pc, file_data, tmp_path, files, calls, err, metrics>>
    /\ UNCHANGED <<st_error, runtime_data, thread_costs, metrics_again>>
    /\ UNCHANGED <<pureVars, round_ties_up, jobVars, scoreVars, callVars>>

\* generate_preview with num_colors <= 0 and no thread colours: colors is
\* empty and "i % len(colors)" raises for the first segment, after the flip
GeneratePreviewRaises ==
    /\ pc = "returned"
    /\ previews < MaxPreviews
    /\ \E num \in PreviewNumColors, thread_colors \in PreviewThreadColors :
           PreviewColors(num, thread_colors) = <<>>
    /\ err' = Exception("ZeroDivisionError", "integer modulo by zero")
    /\ pattern' = [pattern EXCEPT !.stitches = StitchesAfterFlip(pattern.stitches)]
    /\ previews' = previews + 1
    /\ UNCHANGED <<pc, file_data, tmp_path, files, calls, metrics>>
    /\ UNCHANGED <<flowVars, metrics_again>>
    /\ UNCHANGED <<pureVars, round_ties_up, jobVars, scoreVars, callVars>>

\* _calculate_metrics called once more on the analyzer
CalculateMetricsAgain ==
    /\ pc = "returned"
    /\ metrics_again = None
    /\ metrics_again' = CalculateMetrics(pattern.stitches, round_ties_up)
    /\ UNCHANGED <<loaderVars, flowVars, previews>>
    /\ UNCHANGED <<pureVars, round_ties_up, jobVars, scoreVars, callVars>>

\* analyze_file on the bytes of a design, from the staging of the file to the
\* return of the metrics
AnalyzeDesign ==
    /\ pc = "idle"
    /\ calls < MaxCalls
    /\ \E f \in PreviewDesigns :
           /\ file_data' = f
           /\ pattern' = Decoded(f)
           /\ metrics' = CalculateMetrics(Decoded(f).stitches, round_ties_up)
    /\ calls' = calls + 1
    /\ tmp_path' = calls + 1
    /\ pc' = "returned"
    /\ UNCHANGED <<files, err>>
    /\ UNCHANGED <<pureVars, round_ties_up, jobVars, flowVars, previewVars, scoreVars, callVars>>

PreviewNext ==
    \/ AnalyzeDesign
    \/ GeneratePreview
    \/ GeneratePreviewRaises
    \/ CalculateMetricsAgain

PreviewSpec == Init /\ [][PreviewNext]_vars

(***************************************************************************)
(* The estimates main computes from the metrics: CostCalculator.           *)
(* Times are minutes and costs dollars, as exact rationals.                *)
(***************************************************************************)
\* ThreadPrices.BOBBIN_LENGTH: yards per bobbin
BOBBIN_LENGTH == 124

\* CostCalculator.HOOPING_TIME: 45 seconds in minutes
HOOPING_TIME == Rat(45, 60)

\* ThreadPrices.POLYNEON_5500
POLYNEON_5500 == Rat(969, 100)

\* ThreadPrices.BOBBIN_PRICE: 35.85 / 144
BOBBIN_PRICE == Rat(3585, 14400)

\* math.ceil of a rational q >= 0
Ceil(q) == (q.num + q.den - 1) \div q.den

\* math.ceil(q / k) for a rational q >= 0 and an integer k >= 1, computed as
\* ceil(ceil(q) / k), which is the same number, to keep the denominators small
CeilOver(q, k) == Ceil(Rat(Ceil(q), k))

\* max of two rationals
RatMax(a, b) == IF a.num * b.den >= b.num * a.den THEN a ELSE b

\* a * b and a + b for rationals, in lowest terms
RatTimes(a, b) == Frac(a.num * b.num, a.den * b.den)

RatPlus(a, b) == Frac(a.num * b.den + b.num * a.den, a.den * b.den)

\* a variant of CalculateRuntime that adds the buffer after every cycle, the
\* last one included
CalculateRuntimeBufferEveryCycle(stitch_count, thread_weight, quantity, active_heads) ==
    LET rpm == IF thread_weight = 40 THEN 750 ELSE 400
        pieces_per_cycle == Min2(active_heads, quantity)
        total_cycles == Ceil(Rat(quantity, pieces_per_cycle))
        remaining_pieces == quantity % pieces_per_cycle
        last_cycle_pieces == IF remaining_pieces > 0 THEN remaining_pieces ELSE pieces_per_cycle
        stitch_time == Rat(stitch_count, rpm)
        hooping_time_per_cycle == RatTimes(HOOPING_TIME, Rat(pieces_per_cycle, 1))
        cycle_time == RatMax(stitch_time, hooping_time_per_cycle)
        buffer_time == RatTimes(cycle_time, Rat(5, 100))
        last_cycle_hooping == RatTimes(HOOPING_TIME, Rat(last_cycle_pieces, 1))
        last_cycle_time == RatMax(stitch_time, last_cycle_hooping)
    IN  [total_runtime |->
             RatPlus(RatPlus(RatTimes(cycle_time, Rat(total_cycles - 1, 1)),
                             RatTimes(buffer_time, Rat(total_cycles, 1))),
                     last_cycle_time),
         stitch_time |-> stitch_time,
         hooping_time_per_cycle |-> hooping_time_per_cycle,
         cycle_time |-> cycle_time,
         buffer_time |-> buffer_time,
         cycles |-> total_cycles,
         pieces_per_cycle |-> pieces_per_cycle,
         last_cycle_pieces |-> last_cycle_pieces]

\* a variant of CalculateRuntime whose last cycle holds the remainder of the
\* division even when it is zero
CalculateRuntimeRemainderOnly(stitch_count, thread_weight, quantity, active_heads) ==
    LET rpm == IF thread_weight = 40 THEN 750 ELSE 400
        pieces_per_cycle == Min2(active_heads, quantity)
        total_cycles == Ceil(Rat(quantity, pieces_per_cycle))
        last_cycle_pieces == quantity % pieces_per_cycle
        stitch_time == Rat(stitch_count, rpm)
        hooping_time_per_cycle == RatTimes(HOOPING_TIME, Rat(pieces_per_cycle, 1))
        cycle_time == RatMax(stitch_time, hooping_time_per_cycle)
        buffer_time == RatTimes(cycle_time, Rat(5, 100))
        last_cycle_hooping == RatTimes(HOOPING_TIME, Rat(last_cycle_pieces, 1))
        last_cycle_time == RatMax(stitch_time, last_cycle_hooping)
    IN  [total_runtime |->
             RatPlus(RatPlus(RatTimes(cycle_time, Rat(total_cycles - 1, 1)),
                             RatTimes(buffer_time, Rat(total_cycles - 1, 1))),
                     last_cycle_time),
         stitch_time |-> stitch_time,
         hooping_time_per_cycle |-> hooping_time_per_cycle,
         cycle_time |-> cycle_time,
         buffer_time |-> buffer_time,
         cycles |-> total_cycles,
         pieces_per_cycle |-> pieces_per_cycle,
         last_cycle_pieces |-> last_cycle_pieces]

\* calculate_runtime
CalculateRuntime(stitch_count, thread_weight, quantity, active_heads) ==
    LET rpm == IF thread_weight = 40 THEN 750 ELSE 400
        pieces_per_cycle == Min2(active_heads, quantity)
        total_cycles == Ceil(Rat(quantity, pieces_per_cycle))
        remaining_pieces == quantity % pieces_per_cycle
        last_cycle_pieces == IF remaining_pieces > 0 THEN remaining_pieces ELSE pieces_per_cycle
        stitch_time == Rat(stitch_count, rpm)
        hooping_time_per_cycle == RatTimes(HOOPING_TIME, Rat(pieces_per_cycle, 1))
        cycle_time == RatMax(stitch_time, hooping_time_per_cycle)
        buffer_time == RatTimes(cycle_time, Rat(5, 100))
        last_cycle_hooping == RatTimes(HOOPING_TIME, Rat(last_cycle_pieces, 1))
        last_cycle_time == RatMax(stitch_time, last_cycle_hooping)
    IN  [total_runtime |->
             RatPlus(RatPlus(RatTimes(cycle_time, Rat(total_cycles - 1, 1)),
                             RatTimes(buffer_time, Rat(total_cycles - 1, 1))),
                     last_cycle_time),
         stitch_time |-> stitch_time,
         hooping_time_per_cycle |-> hooping_time_per_cycle,
         cycle_time |-> cycle_time,
         buffer_time |-> buffer_time,
         cycles |-> total_cycles,
         pieces_per_cycle |-> pieces_per_cycle,
         last_cycle_pieces |-> last_cycle_pieces]

\* calculate_thread_cost; thread_length is a rational number of yards
CalculateThreadCost(thread_length, quantity, active_heads, num) ==
    LET pieces_per_cycle == Min2(active_heads, quantity)
        total_cycles == Ceil(Rat(quantity, pieces_per_cycle))
        thread_per_piece == RatTimes(thread_length, Rat(105, 100))
        total_thread == RatTimes(thread_per_piece, Rat(quantity, 1))
        spools_per_color == CeilOver(total_thread, active_heads * 5500)
        spools_per_head == (IF spools_per_color > 1 THEN spools_per_color ELSE 1) * num
        bobbins_needed == CeilOver(RatTimes(Rat(quantity, 1), thread_length), BOBBIN_LENGTH)
    IN  [thread_cost |-> RatTimes(Rat(spools_per_head * active_heads, 1), POLYNEON_5500),
         bobbin_cost |-> RatTimes(Rat(bobbins_needed, 1), BOBBIN_PRICE),
         total_spools |-> spools_per_head * active_heads,
         spools_per_head |-> spools_per_head,
         total_bobbins |-> bobbins_needed,
         cycles |-> total_cycles,
         pieces_per_cycle |-> pieces_per_cycle]

(***************************************************************************)
(* calculate_runtime and calculate_thread_cost on their own: the           *)
(* arguments are drawn at the start and each method is applied once.       *)
(***************************************************************************)
\* largest quantity of pieces
MaxQuantity == 7

\* largest head count: max_value of main's "Active Heads" input
MaxHeads == 15

\* stitch counts of the designs
StitchCounts == {0, 300, 1500, 9000}

\* the values of main's "Thread Weight" selectbox
ThreadWeights == {40, 60}

\* thread lengths of the designs, in yards
ThreadLengths == {Rat(0, 1), Rat(250, 1), Rat(12000, 1)}

\* numbers of colours
ColorCounts == {1, 3}

CalcInputs ==
    [stitch_count : StitchCounts, thread_weight : ThreadWeights,
     quantity : 1..MaxQuantity, active_heads : 1..MaxHeads,
     thread_length : ThreadLengths, num_colors : ColorCounts]

\* calculator.calculate_runtime(stitch_count, thread_weight, quantity, active_heads)
ApplyRuntime ==
    /\ inputs # None
    /\ runtime_data = None
    /\ runtime_data' = CalculateRuntime(inputs.stitch_count, inputs.thread_weight,
                                        inputs.quantity, inputs.active_heads)
    /\ UNCHANGED <<st_error, fig, thread_costs>>
    /\ UNCHANGED <<loaderVars, pureVars, round_ties_up, jobVars, previewVars, scoreVars, callVars>>

\* calculator.calculate_thread_cost(thread_length, quantity, active_heads, num_colors)
ApplyThreadCost ==
    /\ inputs # None
    /\ thread_costs = None
    /\ thread_costs' = CalculateThreadCost(inputs.thread_length, inputs.quantity,
                                           inputs.active_heads, inputs.num_colors)
    /\ UNCHANGED <<st_error, fig, runtime_data>>
    /\ UNCHANGED <<loaderVars, pureVars, round_ties_up, jobVars, previewVars, scoreVars, callVars>>

CalcInit ==
    /\ LoaderIdle
    /\ MainIdle
    /\ round_ties_up = FALSE
    /\ ScoreIdle
    /\ PureIdle
    /\ inputs \in CalcInputs

CalcNext ==
    \/ ApplyRuntime
    \/ ApplyThreadCost

CalcSpec == CalcInit /\ [][CalcNext]_vars

(***************************************************************************)
(* calculate_foam_cost on its own.  Sizes are millimetres as exact         *)
(* rationals, as _calculate_metrics returns them.                          *)
(***************************************************************************)
\* ThreadPrices.FOAM_SHEET
FOAM_SHEET == Rat(245, 100)

\* math.floor of a rational q >= 0
Floor(q) == q.num \div q.den

\* "(width_mm / 25.4) + 1"
PaddedInches(mm) == RatPlus(RatTimes(mm, Rat(10, 254)), Rat(1, 1))

\* "math.floor(18 / width_inches)" for a sheet side of 18 or 12 inches
Fit(side, inches) == Floor(Rat(side * inches.den, inches.num))

\* pieces_per_sheet: the better of the two orientations on an 18 x 12 sheet
PiecesPerSheet(width_mm, height_mm) ==
    LET width_inches == PaddedInches(width_mm)
        height_inches == PaddedInches(height_mm)
        pieces_per_sheet_h == Fit(18, width_inches) * Fit(12, height_inches)
        pieces_per_sheet_v == Fit(18, height_inches) * Fit(12, width_inches)
    IN  IF pieces_per_sheet_h > pieces_per_sheet_v THEN pieces_per_sheet_h ELSE pieces_per_sheet_v

\* "math.ceil(quantity / pieces_per_sheet)" divides by zero
FoamCostRaises(width_mm, height_mm) == PiecesPerSheet(width_mm, height_mm) = 0

\* calculate_foam_cost, when it returns
CalculateFoamCost(width_mm, height_mm, quantity) ==
    LET pieces_per_sheet == PiecesPerSheet(width_mm, height_mm)
        sheets_needed == Ceil(Rat(quantity, pieces_per_sheet))
    IN  [sheets_needed |-> sheets_needed,
         pieces_per_sheet |-> pieces_per_sheet,
         total_cost |-> RatTimes(Rat(sheets_needed, 1), FOAM_SHEET),
         foam_unit_cost |-> FOAM_SHEET]

\* widths and heights of the designs, in DST units (0.1 mm): from a single
\* point to 45 cm
FoamSizes == {0, 500, 1000, 2000, 3000, 4500}

FoamInputs ==
    [width_mm : {Rat(w, 10) : w \in FoamSizes},
     height_mm : {Rat(h, 10) : h \in FoamSizes},
     quantity : 1..MaxQuantity]

\* calculator.calculate_foam_cost(width_mm, height_mm, quantity) returns
ApplyFoamCost ==
    /\ inputs # None
    /\ ~called
    /\ ~FoamCostRaises(inputs.width_mm, inputs.height_mm)
    /\ foam_costs' = CalculateFoamCost(inputs.width_mm, inputs.height_mm, inputs.quantity)
    /\ called' = TRUE
    /\ UNCHANGED <<stitches_in, num_colors, grid_size, segments, density_map>>
    /\ UNCHANGED <<inputs, widgets, step, passed, db, save_pc, job_id, saves>>
    /\ UNCHANGED <<loaderVars, round_ties_up, flowVars, previewVars, scoreVars, callVars>>

\* no piece fits the sheet: line 57 raises ZeroDivisionError
ApplyFoamCostRaises ==
    /\ inputs # None
    /\ ~called
    /\ FoamCostRaises(inputs.width_mm, inputs.height_mm)
    /\ err' = Exception("ZeroDivisionError", "division by zero")
    /\ called' = TRUE
    /\ UNCHANGED <<stitches_in, num_colors, grid_size, segments, density_map>>
    /\ UNCHANGED <<pc, file_data, tmp_path, files, calls, pattern, metrics>>
    /\ UNCHANGED <<jobVars, round_ties_up, flowVars, previewVars, scoreVars, callVars>>

FoamInit ==
    /\ LoaderIdle
    /\ MainIdle
    /\ round_ties_up = FALSE
    /\ ScoreIdle
    /\ PureIdle
    /\ inputs \in FoamInputs

FoamNext ==
    \/ ApplyFoamCost
    \/ ApplyFoamCostRaises

FoamSpec == FoamInit /\ [][FoamNext]_vars

(***************************************************************************)
(* The upload handler of main: the script run that follows an upload, with *)
(* every widget Streamlit draws after the upload at its first value.       *)
(***************************************************************************)
\* values of the "Active Heads" input, drawn before the upload
ActiveHeads == {2, 15}

\* "st.error('The uploaded file is empty'); return"
EmptyUpload ==
    /\ pc = "idle"
    /\ \E f \in Uploads : EmptyContents(f) /\ file_data' = f
    /\ st_error' = "The uploaded file is empty"
    /\ pc' = "rejected"
    /\ UNCHANGED <<tmp_path, files, calls, pattern, err, metrics>>
    /\ UNCHANGED <<fig, runtime_data, thread_costs>>
    /\ UNCHANGED <<pureVars, round_ties_up, jobVars, previewVars, scoreVars, callVars>>

\* after analyze_file returned: the preview, calculate_runtime and
\* calculate_thread_cost, with num_colors 1, colour #000000, thread weight 40,
\* no foam and quantity 1
Estimate ==
    /\ pc = "returned"
    /\ runtime_data = None
    /\ fig' = Figure(pattern.stitches, FALSE, "#FF0000", 1, <<"#000000">>)
    /\ \E active_heads \in ActiveHeads :
           /\ runtime_data' = CalculateRuntime(metrics.stitch_count, 40, 1, active_heads)
           /\ thread_costs' = CalculateThreadCost(metrics.thread_length_yards, 1, active_heads, 1)
    /\ UNCHANGED <<loaderVars, st_error>>
    /\ UNCHANGED <<pureVars, round_ties_up, jobVars, previewVars, scoreVars, callVars>>

\* "except Exception as e: st.error(f'Error processing file: {str(e)}')"
ShowError ==
    /\ pc = "raised"
    /\ st_error = None
    /\ st_error' = <<"Error processing file: ", err.msg>>
    /\ UNCHANGED <<loaderVars, fig, runtime_data, thread_costs>>
    /\ UNCHANGED <<pureVars, round_ties_up, jobVars, previewVars, scoreVars, callVars>>

Next ==
    \/ Stage
    \/ ReadReturns
    \/ ReadRaises
    \/ Remove
    \/ Reject
    \/ MetricsRaise
    \/ MetricsReturn
    \/ Rerun
    \/ EmptyUpload
    \/ Estimate
    \/ ShowError

Spec == Init /\ [][Next]_vars

(***************************************************************************)
(* One script run of main for one upload, statement by statement: the      *)
(* widgets, analyze_file, the preview, the estimates, and the "Save        *)
(* Calculation" button with save_job_to_db on a database session.          *)
(***************************************************************************)
\* number of save_job_to_db calls for one upload
MaxSaves == 2

\* values entered in the "Active Heads" input
FlowHeads == {1, 15}

\* values entered in the "Quantity" input
FlowQuantities == {1, 3}

\* the widgets of one script run: "Number of Colors" stays at its first value
FlowWidgets ==
    [active_heads : FlowHeads, use_coloreel : BOOLEAN, quantity : FlowQuantities,
     use_foam : BOOLEAN, thread_weight : ThreadWeights, num_colors : {1}]

\* the uploads of the run: bytes the decoder rejects, bytes it returns nothing
\* or no stitches for, a design without records, a design of a single point
\* (no thread at all) and a design of three records
FlowFiles ==
    {[kind |-> "raises", msg |-> "truncated header"],
     [kind |-> "null"],
     [kind |-> "no_stitches"],
     [kind |-> "design", stitches |-> <<>>],
     [kind |-> "design", stitches |-> <<<<0, 0, "STITCH">>>>],
     [kind |-> "design", stitches |-> <<<<0, 0, "STITCH">>, <<3, 0, "STITCH">>, <<3, 4, "JUMP">>>>]}

\* what analyze_file leaves behind for the bytes f: self.pattern, the
\* exception it raised or the metrics it returned, and whether the temporary
\* file is still on disk
AnalyzeOutcomes(f, up) ==
    IF f.kind = "raises"
    THEN {[pattern |-> None, err |-> Handler(Exception("DecoderException", f.msg)),
           metrics |-> None, leaked |-> TRUE]}
    ELSE IF InvalidPattern(Decoded(f))
         THEN {[pattern |-> Decoded(f), err |-> Handler(Exception("ValueError", "Invalid design file")),
                metrics |-> None, leaked |-> FALSE]}
         ELSE IF Decoded(f).stitches = <<>>
              THEN {[pattern |-> Decoded(f), err |-> Handler(Exception(k[1], k[2])),
                     metrics |-> None, leaked |-> FALSE] :
                        k \in {<<"ValueError", "Invalid design file">>,
                               <<"IndexError", "too many indices for array">>}}
              ELSE {[pattern |-> Decoded(f), err |-> None,
                     metrics |-> CalculateMetrics(Decoded(f).stitches, up), leaked |-> FALSE]}

\* a variant of StepAfterAnalyze in which main goes on after analyze_file raised
StepAfterAnalyzeContinues(out) == "analyzed"

\* where main is after "design_data = analyzer.analyze_file(file_contents)":
\* at the next statement, or, when the call raised, in the handler of line
\* 420 with none of the statements in between run
StepAfterAnalyze(out) == IF out.err = None THEN "analyzed" ELSE "none"

\* a variant of PassedHeads that ignores the Coloreel checkbox
PassedHeadsUnclamped(entered, use_coloreel) == entered

\* the local active_heads after "if use_coloreel: active_heads = min(active_heads, 2)"
PassedHeads(entered, use_coloreel) == IF use_coloreel THEN Min2(entered, 2) ELSE entered

\* the widgets are drawn and analyze_file runs on the uploaded bytes
AnalyzeUpload ==
    /\ pc = "idle"
    /\ calls < MaxCalls
    /\ \E f \in FlowFiles, w \in FlowWidgets :
           \E out \in AnalyzeOutcomes(f, round_ties_up) :
               /\ file_data' = f
               /\ widgets' = w
               /\ pattern' = out.pattern
               /\ err' = out.err
               /\ metrics' = out.metrics
               /\ files' = IF out.leaked THEN files \cup {calls + 1} ELSE files
               /\ pc' = IF out.err = None THEN "returned" ELSE "raised"
               /\ step' = StepAfterAnalyze(out)
    /\ calls' = calls + 1
    /\ tmp_path' = calls + 1
    /\ UNCHANGED <<inputs, foam_costs, passed, db, save_pc, job_id, saves>>
    /\ UNCHANGED <<pureVars, round_ties_up, flowVars, previewVars, scoreVars, callVars>>

\* "fig = analyzer.generate_preview(...)" with one colour picker per colour
Preview ==
    /\ step = "analyzed"
    /\ fig' = Figure(pattern.stitches, widgets.use_foam, "#FF0000", widgets.num_colors,
                     [i \in 1..widgets.num_colors |-> "#000000"])
    /\ pattern' = [pattern EXCEPT !.stitches = StitchesAfterFlip(pattern.stitches)]
    /\ step' = "previewed"
    /\ UNCHANGED <<pc, file_data, tmp_path, files, calls, err, metrics>>
    /\ UNCHANGED <<st_error, runtime_data, thread_costs>>
    /\ UNCHANGED <<inputs, widgets, foam_costs, passed, db, save_pc, job_id, saves>>
    /\ UNCHANGED <<pureVars, round_ties_up, previewVars, scoreVars, callVars>>

\* "runtime_data = calculator.calculate_runtime(...)"
Runtime ==
    /\ step = "previewed"
    /\ LET active_heads == PassedHeads(widgets.active_heads, widgets.use_coloreel)
       IN  /\ runtime_data' = CalculateRuntime(metrics.stitch_count, widgets.thread_weight,
                                               widgets.quantity, active_heads)
           /\ passed' = passed \cup {<<"calculate_runtime", active_heads>>}
    /\ step' = "timed"
    /\ UNCHANGED <<loaderVars, st_error, fig, thread_costs>>
    /\ UNCHANGED <<inputs, widgets, foam_costs, db, save_pc, job_id, saves>>
    /\ UNCHANGED <<pureVars, round_ties_up, previewVars, scoreVars, callVars>>

\* "thread_costs = calculator.calculate_thread_cost(...)"
ThreadCost ==
    /\ step = "timed"
    /\ LET active_heads == PassedHeads(widgets.active_heads, widgets.use_coloreel)
       IN  /\ thread_costs' = CalculateThreadCost(metrics.thread_length_yards, widgets.quantity,
                                                  active_heads, widgets.num_colors)
           /\ passed' = passed \cup {<<"calculate_thread_cost", active_heads>>}
    /\ step' = "costed"
    /\ UNCHANGED <<loaderVars, st_error, fig, runtime_data>>
    /\ UNCHANGED <<inputs, widgets, foam_costs, db, save_pc, job_id, saves>>
    /\ UNCHANGED <<pureVars, round_ties_up, previewVars, scoreVars, callVars>>

\* "foam_costs = None; if use_foam: foam_costs = calculator.calculate_foam_cost(...)";
\* a ZeroDivisionError of the call goes to the handler of line 420
FoamCost ==
    /\ step = "costed"
    /\ IF widgets.use_foam /\ FoamCostRaises(metrics.width_mm, metrics.height_mm)
       THEN /\ err' = Exception("ZeroDivisionError", "division by zero")
            /\ st_error' = <<"Error processing file: ", "division by zero">>
            /\ step' = "failed"
            /\ UNCHANGED foam_costs
       ELSE /\ foam_costs' = IF widgets.use_foam
                             THEN CalculateFoamCost(metrics.width_mm, metrics.height_mm, widgets.quantity)
                             ELSE None
            /\ step' = "estimated"
            /\ UNCHANGED <<err, st_error>>
    /\ UNCHANGED <<pc, file_data, tmp_path, files, calls, pattern, metrics>>
    /\ UNCHANGED <<fig, runtime_data, thread_costs>>
    /\ UNCHANGED <<inputs, widgets, passed, db, save_pc, job_id, saves>>
    /\ UNCHANGED <<pureVars, round_ties_up, previewVars, scoreVars, callVars>>

\* session.add / bulk_save_objects: the rows join the open transaction
DbAdd(d, rows) == [d EXCEPT !.pending = @ \cup rows]

\* session.commit
DbCommit(d) == [pending |-> {}, committed |-> d.committed \cup d.pending]

\* a variant of DbRollback that keeps what was flushed
DbRollbackKeeping(d) == [pending |-> {}, committed |-> d.committed \cup d.pending]

\* session.rollback
DbRollback(d) == [d EXCEPT !.pending = {}]

\* "if use_foam and foam_costs"
FoamUsed(w, f) == w.use_foam /\ f # None

\* the Job of lines 58-86
JobRow(id, w, active_heads, m, r) ==
    [table |-> "jobs", id |-> id, stitch_count |-> m.stitch_count,
     thread_weight |-> w.thread_weight, quantity |-> w.quantity,
     active_heads |-> active_heads, use_foam |-> w.use_foam, use_coloreel |-> w.use_coloreel,
     pieces_per_cycle |-> r.pieces_per_cycle, total_cycles |-> r.cycles]

\* the MaterialUsage rows of lines 91-118; the unit costs divide by
\* total_spools and total_bobbins
MaterialRows(id, w, t, f) ==
    {[table |-> "material_usage", job_id |-> id, material_type |-> "thread",
      quantity |-> t.total_spools, unit |-> "spools",
      unit_cost |-> RatTimes(t.thread_cost, Rat(1, t.total_spools))],
     [table |-> "material_usage", job_id |-> id, material_type |-> "bobbin",
      quantity |-> t.total_bobbins, unit |-> "pieces",
      unit_cost |-> RatTimes(t.bobbin_cost, Rat(1, t.total_bobbins))]}
        \cup (IF FoamUsed(w, f)
              THEN {[table |-> "material_usage", job_id |-> id, material_type |-> "foam",
                     quantity |-> f.sheets_needed, unit |-> "sheets",
                     unit_cost |-> f.foam_unit_cost]}
              ELSE {})

\* total_cost of lines 123 and 141
TotalCost(w, t, f) ==
    IF FoamUsed(w, f)
    THEN RatPlus(RatPlus(t.thread_cost, t.bobbin_cost), f.total_cost)
    ELSE RatPlus(t.thread_cost, t.bobbin_cost)

\* the CostBreakdown rows of lines 124-165
CostRows(id, w, t, f) ==
    {[table |-> "cost_breakdown", job_id |-> id, cost_type |-> "thread", amount |-> t.thread_cost],
     [table |-> "cost_breakdown", job_id |-> id, cost_type |-> "bobbin", amount |-> t.bobbin_cost],
     [table |-> "cost_breakdown", job_id |-> id, cost_type |-> "total", amount |-> TotalCost(w, t, f)]}
        \cup (IF FoamUsed(w, f)
              THEN {[table |-> "cost_breakdown", job_id |-> id, cost_type |-> "foam",
                     amount |-> f.total_cost]}
              ELSE {})

\* the button is pressed: save_job_to_db builds the Job, adds it and flushes
SaveJob ==
    /\ step = "estimated"
    /\ save_pc \in {"idle", "committed", "failed"}
    /\ saves < MaxSaves
    /\ LET active_heads == PassedHeads(widgets.active_heads, widgets.use_coloreel)
       IN  /\ db' = DbAdd(db, {JobRow(saves + 1, widgets, active_heads, metrics, runtime_data)})
           /\ passed' = passed \cup {<<"save_job_to_db", active_heads>>}
    /\ job_id' = saves + 1
    /\ saves' = saves + 1
    /\ save_pc' = "flushed"
    /\ st_error' = None
    /\ UNCHANGED <<loaderVars, fig, runtime_data, thread_costs>>
    /\ UNCHANGED <<inputs, widgets, foam_costs, step>>
    /\ UNCHANGED <<pureVars, round_ties_up, previewVars, scoreVars, callVars>>

\* the material rows are built and saved
SaveMaterials ==
    /\ save_pc = "flushed"
    /\ thread_costs.total_spools # 0
    /\ thread_costs.total_bobbins # 0
    /\ db' = DbAdd(db, MaterialRows(job_id, widgets, thread_costs, foam_costs))
    /\ save_pc' = "materials"
    /\ UNCHANGED <<loaderVars, flowVars>>
    /\ UNCHANGED <<inputs, widgets, foam_costs, step, passed, job_id, saves>>
    /\ UNCHANGED <<pureVars, round_ties_up, previewVars, scoreVars, callVars>>

\* a unit cost divides by zero: "except Exception: db.rollback(); raise", and
\* main shows the error
SaveRaises ==
    /\ save_pc = "flushed"
    /\ thread_costs.total_spools = 0 \/ thread_costs.total_bobbins = 0
    /\ db' = DbRollback(db)
    /\ save_pc' = "failed"
    /\ st_error' = <<"Error saving calculation: ", "float division by zero">>
    /\ UNCHANGED <<loaderVars, fig, runtime_data, thread_costs>>
    /\ UNCHANGED <<inputs, widgets, foam_costs, step, passed, job_id, saves>>
    /\ UNCHANGED <<pureVars, round_ties_up, previewVars, scoreVars, callVars>>

\* the cost rows are built and saved; quantity >= 1 and total_cost > 0
SaveCosts ==
    /\ save_pc = "materials"
    /\ db' = DbAdd(db, CostRows(job_id, widgets, thread_costs, foam_costs))
    /\ save_pc' = "costs"
    /\ UNCHANGED <<loaderVars, flowVars>>
    /\ UNCHANGED <<inputs, widgets, foam_costs, step, passed, job_id, saves>>
    /\ UNCHANGED <<pureVars, round_ties_up, previewVars, scoreVars, callVars>>

\* "db.commit()" succeeds
SaveCommit ==
    /\ save_pc = "costs"
    /\ db' = DbCommit(db)
    /\ save_pc' = "committed"
    /\ UNCHANGED <<loaderVars, flowVars>>
    /\ UNCHANGED <<inputs, widgets, foam_costs, step, passed, job_id, saves>>
    /\ UNCHANGED <<pureVars, round_ties_up, previewVars, scoreVars, callVars>>

\* "db.commit()" raises (the database refuses): rollback and re-raise
SaveCommitRaises ==
    /\ save_pc = "costs"
    /\ db' = DbRollback(db)
    /\ save_pc' = "failed"
    /\ st_error' = <<"Error saving calculation: ", "commit failed">>
    /\ UNCHANGED <<loaderVars, fig, runtime_data, thread_costs>>
    /\ UNCHANGED <<inputs, widgets, foam_costs, step, passed, job_id, saves>>
    /\ UNCHANGED <<pureVars, round_ties_up, previewVars, scoreVars, callVars>>

FlowNext ==
    \/ EmptyUpload
    \/ AnalyzeUpload
    \/ ShowError
    \/ Preview
    \/ Runtime
    \/ ThreadCost
    \/ FoamCost
    \/ SaveJob
    \/ SaveMaterials
    \/ SaveRaises
    \/ SaveCosts
    \/ SaveCommit
    \/ SaveCommitRaises

FlowSpec == Init /\ [][FlowNext]_vars

(***************************************************************************)
(* Two analyze_file calls on one DesignAnalyzer whose statements           *)
(* interleave (two threads sharing the instance).  self.pattern is the     *)
(* instance's attribute; tmp_path and the returned dict are each call's.   *)
(***************************************************************************)
\* longest trace of the designs the two calls are given
MaxConcLen == 2

\* the bytes given to the calls: designs with at least one record
ConcDesigns == [kind : {"design"}, stitches : SeqsUpTo(PreviewRecords, MaxConcLen) \ {<<>>}]

\* the with-block of call c
CallStage(c) ==
    /\ call_pc[c] = "idle"
    /\ \E f \in ConcDesigns : call_data' = [call_data EXCEPT ![c] = f]
    /\ calls' = calls + 1
    /\ call_tmp' = [call_tmp EXCEPT ![c] = calls + 1]
    /\ files' = files \cup {calls + 1}
    /\ call_pc' = [call_pc EXCEPT ![c] = "staged"]
    /\ UNCHANGED <<pc, file_data, tmp_path, pattern, err, metrics, call_metrics>>
    /\ UNCHANGED <<pureVars, round_ties_up, jobVars, flowVars, previewVars, scoreVars>>

\* "self.pattern = pyembroidery.read(tmp_path)" of call c
CallRead(c) ==
    /\ call_pc[c] = "staged"
    /\ pattern' = Decoded(call_data[c])
    /\ call_pc' = [call_pc EXCEPT ![c] = "read"]
    /\ UNCHANGED <<pc, file_data, tmp_path, files, calls, err, metrics>>
    /\ UNCHANGED <<call_data, call_tmp, call_metrics>>
    /\ UNCHANGED <<pureVars, round_ties_up, jobVars, flowVars, previewVars, scoreVars>>

\* "os.remove(tmp_path)" of call c
CallRemove(c) ==
    /\ call_pc[c] = "read"
    /\ files' = files \ {call_tmp[c]}
    /\ call_pc' = [call_pc EXCEPT ![c] = "removed"]
    /\ UNCHANGED <<pc, file_data, tmp_path, calls, pattern, err, metrics>>
    /\ UNCHANGED <<call_data, call_tmp, call_metrics>>
    /\ UNCHANGED <<pureVars, round_ties_up, jobVars, flowVars, previewVars, scoreVars>>

\* the check of self.pattern and "return self._calculate_metrics()" of call c:
\* both read the attribute as it is now
CallMetrics(c) ==
    /\ call_pc[c] = "removed"
    /\ ~InvalidPattern(pattern)
    /\ call_metrics' = [call_metrics EXCEPT ![c] = CalculateMetrics(pattern.stitches, round_ties_up)]
    /\ call_pc' = [call_pc EXCEPT ![c] = "returned"]
    /\ UNCHANGED <<loaderVars, call_data, call_tmp>>
    /\ UNCHANGED <<pureVars, round_ties_up, jobVars, flowVars, previewVars, scoreVars>>

ConcNext ==
    \/ \E c \in CallIds : CallStage(c)
    \/ \E c \in CallIds : CallRead(c)
    \/ \E c \in CallIds : CallRemove(c)
    \/ \E c \in CallIds : CallMetrics(c)

ConcSpec == Init /\ [][ConcNext]_vars

(***************************************************************************)
(* Properties.                                                             *)
(***************************************************************************)
Range(s) == {s[i] : i \in DOMAIN s}

SetMax(S) == CHOOSE m \in S : \A x \in S : x <= m

SetMin(S) == CHOOSE m \in S : \A x \in S : m <= x

\* analyze_file has returned or raised
Done == pc \in {"returned", "raised"}

\* C1: after analyze_file returns or raises, the temporary file that call
\* created no longer exists
C1_TempFileRemovedOnEveryExit == Done => tmp_path \notin files

\* the sum of the step lengths over the consecutive pairs of STITCH records
StitchPairLength(t) ==
    SumSeq([i \in 1..(Len(t) - 1) |->
               IF t[i][3] = "STITCH" /\ t[i + 1][3] = "STITCH"
               THEN StepLength(t[i], t[i + 1])
               ELSE 0])

\* C2: thread_length_yards is the sum of the Euclidean distances over exactly
\* the consecutive pairs in which both records are STITCH (times 0.1 / 914.4),
\* so it is 0 for a trace with no two consecutive STITCH records
C2_ThreadLengthOverStitchPairsOnly ==
    pc = "returned" =>
        metrics.thread_length_yards = Rat(StitchPairLength(pattern.stitches), 9144)

\* the class of the error analyze_file raises when the decoder raised (the
\* "raise Exception(...)" of the handler): the code's DecodeError
DecodeFailureKind == "Exception"

\* C3: when the decoder returns nothing, or a result without stitch data,
\* analyze_file fails with an error whose kind differs from the kind of a
\* decoder-exception failure
C3_InvalidDesignErrorIsDistinct ==
    (Done /\ file_data.kind \in {"null", "no_stitches"}) =>
        (pc = "raised" /\ err.kind # DecodeFailureKind)

\* C4: when the decoder raises, analyze_file raises the wrapping error, whose
\* message carries the decoder's message; the decoder's exception neither
\* escapes as it is nor is swallowed into a normal return
C4_DecoderExceptionTranslated ==
    (file_data.kind = "raises" /\ pc # "staged") =>
        /\ pc = "raised"
        /\ metrics = None
        /\ err.kind = DecodeFailureKind
        /\ file_data.msg \in Range(err.msg)

C4_Witness == pc = "raised" /\ file_data.kind = "raises" /\ file_data.msg = "bad stitch record"

\* C5: a decoded trace of length 0 or 1 is no error: analyze_file returns
\* metrics whose sizes, thread length and scores are all 0
C5_DegenerateTraceZeroMetrics ==
    (Done /\ file_data.kind = "design" /\ Len(file_data.stitches) <= 1) =>
        /\ pc = "returned"
        /\ metrics.width_mm.num = 0
        /\ metrics.height_mm.num = 0
        /\ metrics.thread_length_yards.num = 0
        /\ metrics.complexity_score = 0
        /\ metrics.direction_changes = 0
        /\ metrics.density_score = 0
        /\ metrics.stitch_length_variance = 0

\* concatenation of a sequence of sequences, in order
RECURSIVE Concat(_)
Concat(ss) == IF ss = <<>> THEN <<>> ELSE ss[1] \o Concat(Tail(ss))

\* C6: for num_colors >= 1 the segments, concatenated in order, are the trace
C6_SegmentsConcatenateToTrace == (called /\ num_colors >= 1) => Concat(segments) = stitches_in

C6_Witness ==
    /\ called
    /\ num_colors > Len(stitches_in)
    /\ Len(stitches_in) >= 2
    /\ stitches_in[1] # stitches_in[2]

\* C7: for num_colors >= 1 there are num_colors segments, all but the last of
\* floor(len / num_colors) records, the last of the remaining records
C7_SegmentLengths ==
    (called /\ num_colors >= 1) =>
        /\ Len(segments) = num_colors
        /\ \A i \in 1..num_colors :
               Len(segments[i]) =
                   IF i < num_colors
                   THEN Len(stitches_in) \div num_colors
                   ELSE Len(stitches_in) - (num_colors - 1) * (Len(stitches_in) \div num_colors)

C7_Witness ==
    /\ called
    /\ Len(stitches_in) = 10
    /\ num_colors = 3
    /\ [i \in 1..3 |-> Len(segments[i])] = <<3, 3, 4>>

\* C8: for num_colors <= 0 the result is one segment, the whole trace
C8_NoSegmentationBelowOne == (called /\ num_colors <= 0) => segments = <<stitches_in>>

C8_Witness == called /\ num_colors = 0 /\ Len(stitches_in) >= 2

\* the sum of all cells of a grid
GridSum(g) == SumSeq([i \in 1..Len(g) |-> SumSeq(g[i])])

\* C9: the cells of the density grid sum to the number of records, and the
\* grid has grid_size rows of grid_size cells
C9_DensityGridSumsToStitchCount ==
    called =>
        /\ GridSum(density_map) = Len(stitches_in)
        /\ Len(density_map) = grid_size
        /\ \A i \in 1..grid_size : Len(density_map[i]) = grid_size

\* a trace whose x range is a single value, with a record on the maximum y edge
C9_Witness ==
    /\ called
    /\ grid_size >= 2
    /\ Len(stitches_in) = 3
    /\ Cardinality(Range(Column(stitches_in, 1))) = 1
    /\ Cardinality(Range(Column(stitches_in, 2))) = 2

\* C10: width_mm and height_mm are a tenth of the x and y extents of all the
\* records, whatever their commands: never negative, and 0 when all records
\* share one point
C10_BoundingBoxOverAllRecords ==
    pc = "returned" =>
        LET t == pattern.stitches
            X == Range(Column(t, 1))
            Y == Range(Column(t, 2))
        IN  /\ metrics.width_mm = Rat(SetMax(X) - SetMin(X), 10)
            /\ metrics.height_mm = Rat(SetMax(Y) - SetMin(Y), 10)
            /\ metrics.width_mm.num >= 0
            /\ metrics.height_mm.num >= 0
            /\ (Cardinality(X) = 1 /\ Cardinality(Y) = 1) =>
                   (metrics.width_mm.num = 0 /\ metrics.height_mm.num = 0)

\* the extent is set by a JUMP record
C10_Witness ==
    /\ pc = "returned"
    /\ metrics.width_mm = Rat(3, 10)
    /\ \E i \in 1..Len(pattern.stitches) : pattern.stitches[i][3] = "JUMP"
    /\ \A i \in 1..Len(pattern.stitches) :
           pattern.stitches[i][3] = "STITCH" => pattern.stitches[i][1] = 0

\* C11: the complexity_score that _calculate_complexity_score returns lies in
\* [0, 100] (0..10000 hundredths), and is exactly 0 for an array of fewer than
\* 2 records
C11_ComplexityScoreInRange ==
    called =>
        /\ complexity.complexity_score >= 0
        /\ complexity.complexity_score <= 100 * 100
        /\ Len(stitches_in) < 2 => complexity.complexity_score = 0

\* the weighted sum exceeds 100 and is cut: a dense 3-record design (density
\* score 10 gives 300)
C11_Witness ==
    /\ called
    /\ Len(stitches_in) = 3
    /\ WidthSpan(stitches_in) * HeightSpan(stitches_in) = 1
    /\ complexity.complexity_score = 100 * 100

\* the smaller of two rationals
RatMin(a, b) == IF a.num * b.den <= b.num * a.den THEN a ELSE b

\* the whole hundredths in the rational q >= 0
FloorHundredths(q) == 100 * (q.num \div q.den) + (100 * (q.num % q.den)) \div q.den

\* what is left of q above its whole hundredths, as a numerator over q.den
RestHundredths(q) == (100 * (q.num % q.den)) % q.den

\* h hundredths is exactly the rational q
ExactHundredths(h, q) == h = FloorHundredths(q) /\ RestHundredths(q) = 0

\* h hundredths is q rounded to 2 decimal places: within half a hundredth of q
RoundedHundredths(h, q) ==
    \/ h = FloorHundredths(q) /\ 2 * RestHundredths(q) <= q.den
    \/ h = FloorHundredths(q) + 1 /\ 2 * RestHundredths(q) >= q.den

\* density / 5, for density = stitch_count / area_mm2 and area_mm2 a hundredth
\* of the product of the two extents; 0 when the area is 0
DensityOverFive(t) ==
    LET X == Range(Column(t, 1))
        Y == Range(Column(t, 2))
        a == (SetMax(X) - SetMin(X)) * (SetMax(Y) - SetMin(Y))
    IN  IF a = 0 THEN Rat(0, 1) ELSE Frac(100 * Len(t), 5 * a)

\* population variance of the step lengths, over 100: the mean of the squared
\* deviations from the mean length
VarianceOverHundred(t) ==
    LET m == Len(t) - 1
        l == [i \in 1..m |-> StepLength(t[i], t[i + 1])]
        S == SumSeq(l)
    IN  Frac(SumSeq([i \in 1..m |-> (m * l[i] - S) * (m * l[i] - S)]), 100 * m * m * m)

\* C12, as the specification words it: for an array of 2 or more records the reported
\* density_score is min(density / 5, 10) and the reported
\* stitch_length_variance is min(population variance / 100, 10)
C12_ReportedScoresAreTheMinima ==
    (called /\ Len(stitches_in) >= 2) =>
        /\ ExactHundredths(complexity.density_score,
                           RatMin(DensityOverFive(stitches_in), Rat(10, 1)))
        /\ ExactHundredths(complexity.stitch_length_variance,
                           RatMin(VarianceOverHundred(stitches_in), Rat(10, 1)))

\* C12, with the rounding of the code: for an array of 2 or more records the reported density_score
\* and stitch_length_variance each lie in [0, 10] and are min(density / 5, 10)
\* and min(population variance / 100, 10) rounded to 2 decimal places
C12_ReportedScoresAreRoundedMinima ==
    (called /\ Len(stitches_in) >= 2) =>
        /\ complexity.density_score \in 0..(10 * 100)
        /\ complexity.stitch_length_variance \in 0..(10 * 100)
        /\ RoundedHundredths(complexity.density_score,
                             RatMin(DensityOverFive(stitches_in), Rat(10, 1)))
        /\ RoundedHundredths(complexity.stitch_length_variance,
                             RatMin(VarianceOverHundred(stitches_in), Rat(10, 1)))

\* a density score that is not a whole number of hundredths before rounding
\* (2 records at opposite corners of the 3 x 4 box: 40 / 12 = 3.33...)
C12_Witness ==
    /\ called
    /\ Len(stitches_in) >= 2
    /\ ~ExactHundredths(complexity.density_score, DensityOverFive(stitches_in))
    /\ complexity.density_score \in 1..(10 * 100 - 1)

RatAdd(a, b) == Frac(a.num * b.den + b.num * a.den, a.den * b.den)

\* min(dc / n * 40 + ds * 30 + lv * 30, 100)
WeightedSum(dc, n, ds, lv) ==
    RatMin(RatAdd(Frac(40 * dc, n), RatAdd(Frac(30 * ds.num, ds.den), Frac(30 * lv.num, lv.den))),
           Rat(100, 1))

\* the number of consecutive pairs of headings whose angular difference,
\* reduced to [0, pi] (the turn taken the short way), exceeds pi/4
ReducedTurns(t) ==
    LET v == Vectors(t)
    IN  Cardinality({i \in 1..(Len(v) - 1) : TurnExceeds(Heading(v[i]), Heading(v[i + 1]))})

\* C18: direction_changes is the number of consecutive heading pairs whose
\* absolute angular difference, reduced to [0, pi], exceeds pi/4: a small true
\* turn across the +/-pi wrap-around is not counted, an exact reversal is
C18_DirectionChangesReducedToPi ==
    (called /\ Len(stitches_in) >= 2) =>
        complexity.direction_changes = ReducedTurns(stitches_in)

\* C19: for an array of 2 or more records whose bounding box has zero area,
\* _calculate_complexity_score does not divide by the area: it returns a
\* result with density_score 0, and the density adds nothing to the score
C19_ZeroAreaDensityZero ==
    (called /\ Len(stitches_in) >= 2
            /\ (Cardinality(Range(Column(stitches_in, 1))) = 1
                \/ Cardinality(Range(Column(stitches_in, 2))) = 1)) =>
        /\ complexity # None
        /\ complexity.density_score = 0
        /\ RoundedHundredths(complexity.complexity_score,
                             WeightedSum(complexity.direction_changes, Len(stitches_in),
                                         Rat(0, 1),
                                         RatMin(VarianceOverHundred(stitches_in), Rat(10, 1))))

\* three records on one horizontal line, not all at one point, with a reversal
C19_Witness ==
    /\ called
    /\ Len(stitches_in) = 3
    /\ Cardinality(Range(Column(stitches_in, 2))) = 1
    /\ Cardinality(Range(Column(stitches_in, 1))) > 1
    /\ complexity.direction_changes = 1
    /\ complexity.density_score = 0
    /\ complexity.complexity_score > 0

\* C20: for an array of 2 or more records, complexity_score is
\* min(direction_changes / stitch_count * 40 + density_score * 30
\*     + stitch_length_variance_score * 30, 100) rounded to 2 decimals, with
\* stitch_count the number of records and the step vectors taken between all
\* consecutive records, whatever their commands
C20_ComplexityScoreFormula ==
    (called /\ Len(stitches_in) >= 2) =>
        /\ complexity.direction_changes = DirectionChanges([i \in 1..Len(stitches_in) |->
               <<stitches_in[i][1], stitches_in[i][2], "STITCH">>])
        /\ RoundedHundredths(complexity.complexity_score,
                             WeightedSum(complexity.direction_changes, Len(stitches_in),
                                         RatMin(DensityOverFive(stitches_in), Rat(10, 1)),
                                         RatMin(VarianceOverHundred(stitches_in), Rat(10, 1))))

\* all three terms contribute, the sum is below the cap and is rounded, and
\* one of the records is a JUMP
C20_Witness ==
    /\ called
    /\ Len(stitches_in) = 3
    /\ \E i \in 1..3 : stitches_in[i][3] = "JUMP"
    /\ complexity.direction_changes = 1
    /\ complexity.density_score > 0
    /\ complexity.stitch_length_variance > 0
    /\ complexity.complexity_score < 100 * 100
    /\ ~ExactHundredths(complexity.complexity_score,
                        WeightedSum(complexity.direction_changes, Len(stitches_in),
                                    RatMin(DensityOverFive(stitches_in), Rat(10, 1)),
                                    RatMin(VarianceOverHundred(stitches_in), Rat(10, 1))))

\* C16: get_complexity_description puts every score of [0, 100] in exactly
\* one band, closed below and open above: [0, 20) simple, [20, 40) moderate,
\* [40, 60) complex, [60, 80) very complex, [80, 100] extremely complex; the
\* scores 20, 40, 60 and 80 are in the higher band
C16_DescriptionBands ==
    called =>
        /\ (score_in >= 0 /\ score_in < 2000)
               <=> description = "Simple design with basic stitching patterns"
        /\ (score_in >= 2000 /\ score_in < 4000)
               <=> description = "Moderate complexity with some direction changes"
        /\ (score_in >= 4000 /\ score_in < 6000)
               <=> description = "Complex design with frequent direction changes and varied density"
        /\ (score_in >= 6000 /\ score_in < 8000)
               <=> description = "Very complex design with high stitch density and technical challenges"
        /\ (score_in >= 8000 /\ score_in <= 10000)
               <=> description = "Extremely complex design requiring careful production consideration"

\* the score 20.00, described as moderate
C16_Witness ==
    /\ called
    /\ score_in = 2000
    /\ description = "Moderate complexity with some direction changes"

\* C13: the metrics are a function of the trace alone: computed a second time
\* on the same loaded trace, with any number of generate_preview calls before
\* or in between, they are the values computed the first time
C13_MetricsRecomputedIdentical ==
    metrics_again # None =>
        /\ metrics_again = metrics
        /\ metrics_again = CalculateMetrics(file_data.stitches, round_ties_up)

\* a second computation after a preview of a design with a direction change
C13_Witness ==
    /\ metrics_again # None
    /\ previews >= 1
    /\ fig # None
    /\ metrics.direction_changes >= 1

\* C14: generate_preview flips a copy: after any number of generate_preview
\* calls pattern.stitches holds the records, in the order and with the
\* coordinates, it held when the design was loaded
C14_PreviewLeavesTraceUntouched ==
    (pc = "returned" /\ previews >= 1) => pattern.stitches = file_data.stitches

\* two previews of a design that is not its own mirror image, the figure
\* showing the flipped points
C14_Witness ==
    /\ previews >= 2
    /\ fig # None
    /\ \E i \in 1..Len(pattern.stitches) : pattern.stitches[i][1] = 3
    /\ \E i \in 1..Len(fig.lines) : \E j \in 1..Len(fig.lines[i].points) :
           fig.lines[i].points[j][1] = -3

\* C15: each analyze_file call owns its trace: when two calls interleave, on
\* one DesignAnalyzer instance too, the metrics a call returns are those of
\* the trace decoded from its own bytes
C15_EachCallOwnsItsTrace ==
    \A c \in CallIds :
        call_pc[c] = "returned" =>
            call_metrics[c] = CalculateMetrics(call_data[c].stitches, round_ties_up)

\* C17: a zero-byte upload ends the script run: main shows the empty-input
\* error and, for that upload, stages no temporary file, never calls the
\* decoder, and produces no metrics, runtime or cost values
C17_EmptyUploadIsTerminal ==
    /\ [](file_data = EmptyFile =>
             /\ pc = "rejected"
             /\ st_error = "The uploaded file is empty"
             /\ tmp_path = 0
             /\ pattern = None
             /\ err = None
             /\ metrics = None
             /\ fig = None
             /\ runtime_data = None
             /\ thread_costs = None)
    /\ [][file_data' = EmptyFile => (files' = files /\ calls' = calls)]_vars

\* an empty upload that follows an analysed one
C17_Witness ==
    /\ file_data = EmptyFile
    /\ pc = "rejected"
    /\ calls >= 1
    /\ st_error = "The uploaded file is empty"

(***************************************************************************)
(* calculate_runtime and calculate_thread_cost.                            *)
(***************************************************************************)
\* a = b for rationals
RatEq(a, b) == a.num * b.den = b.num * a.den

\* a < b for rationals
RatLess(a, b) == a.num * b.den < b.num * a.den

\* the stitch rate the statement gives for each thread weight
StatedRate(thread_weight) == IF thread_weight = 40 THEN 750 ELSE IF thread_weight = 60 THEN 400 ELSE 0

\* max(stitch_time, 0.75 * pieces), for the returned stitch_time
StatedCycle(r, pieces) == RatMax(r.stitch_time, RatTimes(Rat(75, 100), Rat(pieces, 1)))

\* C21: calculate_runtime stitches at 750 per minute for thread weight 40 and
\* 400 for thread weight 60, hoops 45 seconds per piece of a cycle, and its
\* total_runtime is (cycles-1) * 1.05 * max(stitch_time, 0.75*pieces_per_cycle)
\* + max(stitch_time, 0.75*last_cycle_pieces); a job of one cycle has no buffer
C21_RuntimeFormula ==
    runtime_data # None /\ inputs # None =>
        LET r == runtime_data
        IN  /\ RatEq(r.stitch_time, Rat(inputs.stitch_count, StatedRate(inputs.thread_weight)))
            /\ RatEq(r.hooping_time_per_cycle, Rat(45 * r.pieces_per_cycle, 60))
            /\ RatEq(r.total_runtime,
                     RatPlus(RatTimes(RatTimes(Rat(r.cycles - 1, 1), Rat(105, 100)),
                                      StatedCycle(r, r.pieces_per_cycle)),
                             StatedCycle(r, r.last_cycle_pieces)))
            /\ r.cycles = 1 => RatEq(r.total_runtime, StatedCycle(r, r.last_cycle_pieces))

\* a job of thread weight 60 with several cycles, a shorter last cycle and a
\* stitch time between the two hooping times, and its runtime
C21_Witness ==
    /\ runtime_data # None
    /\ inputs # None
    /\ inputs.thread_weight = 60
    /\ runtime_data.cycles >= 2
    /\ runtime_data.last_cycle_pieces < runtime_data.pieces_per_cycle
    /\ RatLess(runtime_data.stitch_time, runtime_data.hooping_time_per_cycle)
    /\ RatLess(Rat(75 * runtime_data.last_cycle_pieces, 100), runtime_data.stitch_time)

\* C23: for quantity >= 1 and active_heads >= 1 both methods return
\* pieces_per_cycle = min(active_heads, quantity) and
\* cycles = ceil(quantity / pieces_per_cycle), and last_cycle_pieces is in
\* 1..pieces_per_cycle with (cycles-1) * pieces_per_cycle + last_cycle_pieces
\* = quantity
C23_CyclesAgree ==
    runtime_data # None /\ thread_costs # None /\ inputs # None =>
        LET r == runtime_data
            t == thread_costs
            q == inputs.quantity
            ppc == IF inputs.active_heads <= q THEN inputs.active_heads ELSE q
        IN  /\ r.pieces_per_cycle = ppc
            /\ t.pieces_per_cycle = ppc
            /\ r.cycles = t.cycles
            /\ (r.cycles - 1) * ppc < q
            /\ q <= r.cycles * ppc
            /\ 1 <= r.last_cycle_pieces
            /\ r.last_cycle_pieces <= ppc
            /\ (r.cycles - 1) * ppc + r.last_cycle_pieces = q

\* both methods applied to a job whose quantity is a multiple of the head
\* count, over several cycles
C23_Witness ==
    /\ runtime_data # None
    /\ thread_costs # None
    /\ inputs # None
    /\ inputs.active_heads = 3
    /\ inputs.quantity = 6
    /\ runtime_data.cycles = 2
    /\ runtime_data.last_cycle_pieces = 3

(***************************************************************************)
(* calculate_foam_cost.                                                    *)
(***************************************************************************)
\* a size in mm enlarged by 1 inch of padding on each of its two sides
StatedPadded(mm) == RatPlus(RatTimes(mm, Rat(10, 254)), Rat(2, 1))

\* pieces of that padded size on an 18 x 12 sheet, best of both orientations
StatedPieces(width_mm, height_mm) ==
    LET w == StatedPadded(width_mm)
        h == StatedPadded(height_mm)
        across == Fit(18, w) * Fit(12, h)
        turned == Fit(18, h) * Fit(12, w)
    IN  IF across > turned THEN across ELSE turned

\* C22: calculate_foam_cost pads the width and the height by 1 inch per side,
\* fits the padded piece on an 18 x 12 inch sheet in the better orientation,
\* and charges $2.45 per sheet needed
C22_FoamPaddedOneInchPerSide ==
    foam_costs # None /\ inputs # None =>
        /\ foam_costs.pieces_per_sheet = StatedPieces(inputs.width_mm, inputs.height_mm)
        /\ RatEq(foam_costs.total_cost, Rat(245 * foam_costs.sheets_needed, 100))

\* C24: for every size and quantity >= 1 calculate_foam_cost returns, with
\* pieces_per_sheet >= 1, sheets_needed >= 1 and
\* sheets_needed * pieces_per_sheet >= quantity; it never divides by zero
C24_FoamCostNeverDividesByZero ==
    inputs # None /\ called =>
        /\ err = None
        /\ foam_costs # None
        /\ foam_costs.pieces_per_sheet >= 1
        /\ foam_costs.sheets_needed >= 1
        /\ foam_costs.sheets_needed * foam_costs.pieces_per_sheet >= inputs.quantity

(***************************************************************************)
(* generate_preview's colours.                                             *)
(***************************************************************************)
\* C27: generate_preview does not fail for any num_colors and thread_colors:
\* every call returns a figure that draws at least the whole-trace segment,
\* also with num_colors <= 0 and no thread_colors
C27_PreviewNeverFails ==
    previews > 0 =>
        /\ err = None
        /\ fig # None
        /\ Len(fig.lines) >= 1

(***************************************************************************)
(* The upload flow of main and save_job_to_db.                             *)
(***************************************************************************)
\* the committed rows of job id
CommittedOf(id) ==
    {row \in db.committed :
        IF row.table = "jobs" THEN row.id = id ELSE row.job_id = id}

\* the committed rows of one table and job, as the set of their types
TypesOf(id, table) ==
    {IF table = "material_usage" THEN row.material_type ELSE row.cost_type :
        row \in {x \in CommittedOf(id) : x.table = table}}

CountOf(id, table) == Cardinality({x \in CommittedOf(id) : x.table = table})

\* job id is committed whole: one Job, its thread and bobbin material rows and
\* its thread, bobbin and total cost rows, with a foam row in each table
\* exactly when the job uses foam
Whole(id) ==
    /\ CountOf(id, "jobs") = 1
    /\ LET job == CHOOSE x \in CommittedOf(id) : x.table = "jobs"
           foam == IF job.use_foam THEN {"foam"} ELSE {}
       IN  /\ TypesOf(id, "material_usage") = {"thread", "bobbin"} \cup foam
           /\ CountOf(id, "material_usage") = 2 + Cardinality(foam)
           /\ TypesOf(id, "cost_breakdown") = {"thread", "bobbin", "total"} \cup foam
           /\ CountOf(id, "cost_breakdown") = 3 + Cardinality(foam)

\* C25: save_job_to_db is all-or-nothing: a call that fails after the flush
\* of its Job is rolled back and commits none of its rows; a call that
\* succeeds commits exactly one Job with its material and cost rows, together
C25_SaveAllOrNothing ==
    /\ \A id \in 1..saves : CommittedOf(id) = {} \/ Whole(id)
    /\ save_pc = "failed" => db.pending = {} /\ CommittedOf(job_id) = {}
    /\ save_pc \in {"flushed", "materials", "costs"} => CommittedOf(job_id) = {}
    /\ save_pc = "committed" => db.pending = {} /\ Whole(job_id)

\* a save of a design without thread: total_bobbins is 0, the unit cost
\* raised after the flush and the call was rolled back
C25_Witness ==
    /\ save_pc = "failed"
    /\ thread_costs # None
    /\ thread_costs.total_bobbins = 0
    /\ st_error = <<"Error saving calculation: ", "float division by zero">>
    /\ job_id = 1

\* whether any of generate_preview, calculate_runtime, calculate_thread_cost
\* and save_job_to_db has run in this script run
SomeEstimateRan ==
    \/ step # "none"
    \/ fig # None
    \/ runtime_data # None
    \/ thread_costs # None
    \/ passed # {}
    \/ save_pc # "idle"
    \/ db # EmptyDb

\* C26: generate_preview, calculate_runtime, calculate_thread_cost and
\* save_job_to_db run only after analyze_file returned metrics for the upload;
\* when it raised none of them runs, and generate_preview never runs on an
\* unset pattern
C26_EstimatesOnlyAfterMetrics ==
    /\ SomeEstimateRan => pc = "returned" /\ metrics # None
    /\ pc = "raised" => ~SomeEstimateRan
    /\ fig # None => ~InvalidPattern(pattern)

\* analyze_file raised on bytes the decoder rejects, and main showed the error
C26_Witness ==
    /\ pc = "raised"
    /\ widgets # None
    /\ pattern = None
    /\ st_error # None
    /\ ~SomeEstimateRan

\* C28: with Coloreel enabled the active_heads given to calculate_runtime,
\* calculate_thread_cost and save_job_to_db is min(entered, 2), at most 2;
\* with Coloreel disabled it is the entered head count, in 1..15
C28_ColoreelLimitsHeads ==
    widgets # None =>
        /\ \A p \in passed :
               IF widgets.use_coloreel
               THEN p[2] <= 2 /\ p[2] = (IF widgets.active_heads < 2 THEN widgets.active_heads ELSE 2)
               ELSE p[2] = widgets.active_heads /\ p[2] \in 1..15
        /\ \A row \in db.pending \cup db.committed :
               row.table = "jobs" =>
                   IF widgets.use_coloreel THEN row.active_heads <= 2
                   ELSE row.active_heads = widgets.active_heads

\* Coloreel enabled with 15 heads entered: the three callees were given 2
C28_Witness ==
    /\ widgets # None
    /\ widgets.use_coloreel
    /\ widgets.active_heads = 15
    /\ passed = {<<"calculate_runtime", 2>>, <<"calculate_thread_cost", 2>>, <<"save_job_to_db", 2>>}
    /\ save_pc = "committed"

====
